---- MODULE Spec2Model ----
(***************************************************************************)
(* Store state manager of the e-commerce storefront (src/App.tsx, the      *)
(* AppProvider defined at lines 841-945 and the page handlers that call    *)
(* it).  The provider owns four collections (isAdmin, products, cart,      *)
(* orders); each is a React state cell mirrored into window.localStorage   *)
(* by useLocalStorage.                                                     *)
(*                                                                         *)
(* Abstractions: a product carries id, name and price; image and           *)
(* description are copied along unchanged by every operation and are left  *)
(* out.  Ids are Date.now().toString() or '1'..'6'; toString is injective  *)
(* on integers, so an id is modelled by its integer.  Prices are the       *)
(* integers the forms accept (parseFloat > 0).  A text is the sequence of   *)
(* its characters.  `ui` holds the state of the page components: the       *)
(* error of the admin product form, the error and the submitting flag of   *)
(* the checkout page, the route shown, the order id a submission waits to  *)
(* navigate with and the order id of the success route.  `quota` tells whether the browser still accepts a   *)
(* write to the storage ("free") or setItem throws ("exceeded").           *)
(***************************************************************************)
EXTENDS Integers, Sequences, FiniteSets, TLC

VARIABLES isAdmin, products, cart, orders, localStorage, now, last, calls, ui,
          quota

vars == <<isAdmin, products, cart, orders, localStorage, now, last, calls, ui,
          quota>>

(***************************************************************************)
(* Bounds of the model.                                                    *)
(***************************************************************************)
MaxCalls == 4       \* operations called in one session

(***************************************************************************)
(* Program constants.                                                      *)
(***************************************************************************)
ADMIN_EMAIL == "admin@example.com"
ADMIN_PASSWORD == "password123"
SHIPPING_COST == 250
T0 == 100           \* first clock reading; Date.now() is far above the ids '1'..'6'

\* The first two of the six default products (id, name, price).
initialProducts ==
    << [id |-> 1, name |-> <<"C", "l", "a", "s", "s", "i", "c", " ", "L", "e", "a", "t", "h", "e", "r", " ", "W", "a", "l", "l", "e", "t">>,
        price |-> 2500],
       [id |-> 2, name |-> <<"M", "o", "d", "e", "r", "n", " ", "S", "m", "a", "r", "t", "w", "a", "t", "c", "h", " ", "D", "X">>,
        price |-> 15000] >>

(***************************************************************************)
(* JavaScript numbers.  A quantity or an amount is a number that may be    *)
(* NaN (parseInt of an empty input); JSON.stringify writes NaN as null.    *)
(***************************************************************************)
Num(n) == [k |-> "num", v |-> n]
NaN == [k |-> "nan", v |-> 0]
Null == [k |-> "null", v |-> 0]

\* an argument that the caller left out
Undefined == [k |-> "undefined", v |-> 0]

IsNum(x) == x.k = "num"

\* the number an operand of + or * stands for: null counts as 0
ToNumber(x) == IF x.k = "null" THEN Num(0) ELSE x

\* a + b
Plus(a, b) ==
    IF IsNum(ToNumber(a)) /\ IsNum(ToNumber(b))
    THEN Num(ToNumber(a).v + ToNumber(b).v) ELSE NaN

\* a * b
Times(a, b) ==
    IF IsNum(ToNumber(a)) /\ IsNum(ToNumber(b))
    THEN Num(ToNumber(a).v * ToNumber(b).v) ELSE NaN

\* a <= 0 (false for NaN)
LeqZero(a) == IsNum(a) /\ a.v <= 0

\* JSON.stringify of a number
JSONNum(x) == IF IsNum(x) THEN x ELSE Null

(***************************************************************************)
(* Array helpers.                                                          *)
(***************************************************************************)
\* prev.find(...) !== undefined
HasId(s, id) == \E i \in 1..Len(s) : s[i].id = id

\* the ids of the elements of an array
IdsOf(s) == {s[i].id : i \in 1..Len(s)}

(***************************************************************************)
(* Inputs of the operations.                                               *)
(***************************************************************************)
\* what the login form may hold
Emails == {ADMIN_EMAIL, "ADMIN@EXAMPLE.COM"}
Passwords == {ADMIN_PASSWORD, "Password123"}

(***************************************************************************)
(* Texts and what the forms do with them.                                  *)
(***************************************************************************)
IsSpace(c) == c = " "

IsDigit(c) == c \in {"0", "1", "2", "3", "4", "5", "6", "7", "8", "9"}

DigitValue(c) ==
    CASE c = "0" -> 0 [] c = "1" -> 1 [] c = "2" -> 2 [] c = "3" -> 3
      [] c = "4" -> 4 [] c = "5" -> 5 [] c = "6" -> 6 [] c = "7" -> 7
      [] c = "8" -> 8 [] c = "9" -> 9

\* the text without its leading whitespace
RECURSIVE TrimStart(_)
TrimStart(t) ==
    IF t # <<>> /\ IsSpace(Head(t)) THEN TrimStart(Tail(t)) ELSE t

\* the text without its trailing whitespace
RECURSIVE TrimEnd(_)
TrimEnd(t) ==
    IF t # <<>> /\ IsSpace(t[Len(t)]) THEN TrimEnd(SubSeq(t, 1, Len(t) - 1)) ELSE t

\* t.trim()
Trim(t) == TrimEnd(TrimStart(t))

\* t.replace(/\s+/g, '')
RemoveWhitespace(t) == LET keep(c) == ~IsSpace(c) IN SelectSeq(t, keep)

\* /^\d{10,15}$/.test(t)
TenToFifteenDigits(t) ==
    /\ Len(t) >= 10
    /\ Len(t) <= 15
    /\ \A i \in 1..Len(t) : IsDigit(t[i])

\* the value of the longest prefix of digits of t, read after acc
RECURSIVE ReadDigits(_, _)
ReadDigits(t, acc) ==
    IF t # <<>> /\ IsDigit(Head(t))
    THEN ReadDigits(Tail(t), 10 * acc + DigitValue(Head(t)))
    ELSE acc

\* parseFloat(t) of a text without fraction and exponent: leading whitespace
\* is skipped, a sign is read, then the digits; NaN when no digit follows
parseFloat(t) ==
    LET u == TrimStart(t)
        signed == u # <<>> /\ Head(u) \in {"-", "+"}
        digits == IF signed THEN Tail(u) ELSE u
    IN  IF digits = <<>> \/ ~IsDigit(Head(digits)) THEN NaN
        ELSE IF signed /\ Head(u) = "-" THEN Num(0 - ReadDigits(digits, 0))
        ELSE Num(ReadDigits(digits, 0))

\* what the admin product form may hold: name, price (an input of type
\* number: a number or the empty text), description
ProductForms ==
    {[name |-> <<"G", "a", "d", "g", "e", "t">>, price |-> <<"1", "0", "0">>, description |-> <<"N", "e", "w">>],
     [name |-> <<" ", " ">>, price |-> <<"1", "0", "0">>, description |-> <<"N", "e", "w">>],
     [name |-> <<"G", "a", "d", "g", "e", "t">>, price |-> <<>>, description |-> <<"N", "e", "w">>],
     [name |-> <<"G", "a", "d", "g", "e", "t">>, price |-> <<"0">>, description |-> <<"N", "e", "w">>],
     [name |-> <<"G", "a", "d", "g", "e", "t">>, price |-> <<"-", "5">>, description |-> <<"N", "e", "w">>],
     [name |-> <<"G", "a", "d", "g", "e", "t">>, price |-> <<"1", "0", "0">>, description |-> <<" ">>]}

\* a variant that lets a price of 0 pass
productFormRejected_negativeOnly(form) ==
    \/ Trim(form.name) = <<>>
    \/ ~IsNum(parseFloat(form.price))
    \/ parseFloat(form.price).v < 0
    \/ Trim(form.description) = <<>>

\* AdminProductForm.handleSave: !name.trim() || isNaN(numericPrice) ||
\* numericPrice <= 0 || !description.trim()
productFormRejected(form) ==
    \/ Trim(form.name) = <<>>
    \/ ~IsNum(parseFloat(form.price))
    \/ LeqZero(parseFloat(form.price))
    \/ Trim(form.description) = <<>>

\* productData = { name, price: numericPrice, ... }
productDataOf(form) == [name |-> form.name, price |-> parseFloat(form.price).v]

\* what the admin product form passes on
FormData == {productDataOf(form) : form \in {f \in ProductForms : ~productFormRejected(f)}}

\* what the checkout form passes on
CustomerInfos ==
    {[name |-> <<"A", "l", "i">>, phone |-> <<"0", "3", "0", "0", "1", "2", "3", "4", "5", "6", "7">>,
      address |-> <<"L", "a", "h", "o", "r", "e">>],
     [name |-> <<"S", "a", "r", "a">>, phone |-> <<"0", "3", "1", "1", " ", "1", "2", "3", "4", "5", "6", "7">>,
      address |-> <<"K", "a", "r", "a", "c", "h", "i">>]}

\* what the checkout form may hold
CheckoutForms ==
    CustomerInfos \cup
    {[name |-> <<" ">>, phone |-> <<"0", "3", "0", "0", "1", "2", "3", "4", "5", "6", "7">>,
      address |-> <<"L", "a", "h", "o", "r", "e">>],
     [name |-> <<"A", "l", "i">>, phone |-> <<>>, address |-> <<"L", "a", "h", "o", "r", "e">>],
     [name |-> <<"A", "l", "i">>, phone |-> <<"0", "3", "0", "0", "1", "2", "3", "4", "5">>,
      address |-> <<"L", "a", "h", "o", "r", "e">>],
     [name |-> <<"A", "l", "i">>, phone |-> <<"0", "3", "0", "0", "1", "2", "3", "4", "5", "6", "7", "8", "9", "0", "1", "2">>,
      address |-> <<"L", "a", "h", "o", "r", "e">>],
     [name |-> <<"A", "l", "i">>, phone |-> <<"0", "3", "0", "0", "1", "2", "3", "4", "5", "6", "7">>,
      address |-> <<>>]}

\* a variant whose phone test is /^\d{9,15}$/
checkoutFormRejected_nineDigits(customerInfo) ==
    \/ Trim(customerInfo.name) = <<>>
    \/ Trim(customerInfo.phone) = <<>>
    \/ Trim(customerInfo.address) = <<>>
    \/ LET t == RemoveWhitespace(customerInfo.phone) IN
          ~(Len(t) >= 9 /\ Len(t) <= 15 /\ \A i \in 1..Len(t) : IsDigit(t[i]))

\* CheckoutPage.handleSubmit: the two tests that end with setError
checkoutFormRejected(customerInfo) ==
    \/ Trim(customerInfo.name) = <<>>
    \/ Trim(customerInfo.phone) = <<>>
    \/ Trim(customerInfo.address) = <<>>
    \/ ~TenToFifteenDigits(RemoveWhitespace(customerInfo.phone))

\* ProductDetailPage: Math.max(1, parseInt(value) || 1)
AddQuantities == {Num(1), Num(2)}

\* the quantity argument of addToCart: ProductDetailPage passes its quantity,
\* ProductCard passes none
AddArguments == AddQuantities \cup {Undefined}

\* CartPage: parseInt(e.target.value), NaN for an empty input
UpdateQuantities == {Num(-1), Num(0), Num(1), Num(2), NaN}

Statuses == {"Pending", "Shipped", "Delivered"}

\* an id no product and no order carries
NoSuchId == 0

(***************************************************************************)
(* useLocalStorage: the value written under a key.                         *)
(***************************************************************************)
Missing == [present |-> FALSE]
Stored(json) == [present |-> TRUE, val |-> json]

\* JSON.stringify of a cart: a NaN quantity is written as null
JSONCart(c) == [i \in 1..Len(c) |-> [c[i] EXCEPT !.quantity = JSONNum(@)]]

\* JSON.stringify of the orders
JSONOrders(os) ==
    [i \in 1..Len(os) |->
        [os[i] EXCEPT !.items = JSONCart(@), !.totalAmount = JSONNum(@)]]

\* window.localStorage.setItem(key, JSON.stringify(valueToStore)) inside
\* setValue's try: a write that throws is caught and leaves the store
SetItem(store, key, json) ==
    IF quota = "exceeded" THEN store ELSE [store EXCEPT ![key] = Stored(json)]

\* useLocalStorage's initial state: item ? JSON.parse(item) : initialValue,
\* where JSON.parse gives back the value that was written (null for a NaN)
getItem(store, key, initialValue) ==
    IF store[key].present THEN store[key].val ELSE initialValue

\* a variant whose mount effect restores the defaults for a missing key only
initialState_missingOnly(store) ==
    [isAdmin  |-> getItem(store, "isAdmin", FALSE),
     products |-> getItem(store, "products", initialProducts),
     cart     |-> getItem(store, "cart", <<>>),
     orders   |-> getItem(store, "orders", <<>>)]

\* the state of an AppProvider that starts on the store, its mount effect
\* included: the default products replace a missing or empty list
initialState(store) ==
    [isAdmin  |-> getItem(store, "isAdmin", FALSE),
     products |-> IF ~store.products.present \/ Len(store.products.val) = 0
                  THEN initialProducts
                  ELSE getItem(store, "products", initialProducts),
     cart     |-> getItem(store, "cart", <<>>),
     orders   |-> getItem(store, "orders", <<>>)]

(***************************************************************************)
(* The state updaters of AppProvider.                                      *)
(***************************************************************************)
\* addProduct: [...prev, newProduct]
addProduct(prev, productData, id) ==
    Append(prev, [id |-> id, name |-> productData.name, price |-> productData.price])

\* a variant that inserts the product when no id matches
editProduct_upsert(prev, updatedProduct) ==
    IF HasId(prev, updatedProduct.id)
    THEN [i \in 1..Len(prev) |->
            IF prev[i].id = updatedProduct.id THEN updatedProduct ELSE prev[i]]
    ELSE Append(prev, updatedProduct)

\* editProduct: prev.map(p => p.id === updatedProduct.id ? updatedProduct : p)
editProduct(prev, updatedProduct) ==
    [i \in 1..Len(prev) |->
        IF prev[i].id = updatedProduct.id THEN updatedProduct ELSE prev[i]]

\* deleteProduct: prev.filter(p => p.id !== productId)
deleteProduct(prev, productId) ==
    LET keep(p) == p.id # productId IN SelectSeq(prev, keep)

\* the parameter `quantity: number = 1` of addToCart
quantityParameter(argument) == IF argument = Undefined THEN Num(1) ELSE argument

\* a variant that puts a new line first
addToCart_prepend(prevCart, product, quantity) ==
    IF HasId(prevCart, product.id)
    THEN [i \in 1..Len(prevCart) |->
            IF prevCart[i].id = product.id
            THEN [prevCart[i] EXCEPT !.quantity = Plus(@, quantity)]
            ELSE prevCart[i]]
    ELSE <<[id |-> product.id, name |-> product.name, price |-> product.price,
            quantity |-> quantity]>> \o prevCart

\* a variant that appends a line without looking for an existing one
addToCart_alwaysAppend(prevCart, product, quantity) ==
    Append(prevCart,
           [id |-> product.id, name |-> product.name, price |-> product.price,
            quantity |-> quantity])

\* addToCart
addToCart(prevCart, product, quantity) ==
    IF HasId(prevCart, product.id)
    THEN [i \in 1..Len(prevCart) |->
            IF prevCart[i].id = product.id
            THEN [prevCart[i] EXCEPT !.quantity = Plus(@, quantity)]
            ELSE prevCart[i]]
    ELSE Append(prevCart,
                [id |-> product.id, name |-> product.name, price |-> product.price,
                 quantity |-> quantity])

\* removeFromCart
removeFromCart(prevCart, productId) ==
    LET keep(item) == item.id # productId IN SelectSeq(prevCart, keep)

\* a variant that adds the quantity to the line's
updateCartQuantity_adds(prevCart, productId, quantity) ==
    IF LeqZero(quantity)
    THEN removeFromCart(prevCart, productId)
    ELSE [i \in 1..Len(prevCart) |->
            IF prevCart[i].id = productId
            THEN [prevCart[i] EXCEPT !.quantity = Plus(@, quantity)]
            ELSE prevCart[i]]

\* a variant that tests quantity < 0
updateCartQuantity_strict(prevCart, productId, quantity) ==
    IF IsNum(quantity) /\ quantity.v < 0
    THEN removeFromCart(prevCart, productId)
    ELSE [i \in 1..Len(prevCart) |->
            IF prevCart[i].id = productId
            THEN [prevCart[i] EXCEPT !.quantity = quantity]
            ELSE prevCart[i]]

\* updateCartQuantity
updateCartQuantity(prevCart, productId, quantity) ==
    IF LeqZero(quantity)
    THEN removeFromCart(prevCart, productId)
    ELSE [i \in 1..Len(prevCart) |->
            IF prevCart[i].id = productId
            THEN [prevCart[i] EXCEPT !.quantity = quantity]
            ELSE prevCart[i]]

\* cartItems.reduce((total, item) => total + item.price * item.quantity, 0)
RECURSIVE ReduceSubtotal(_, _)
ReduceSubtotal(items, total) ==
    IF items = <<>> THEN total
    ELSE ReduceSubtotal(Tail(items),
                        Plus(total, Times(Num(Head(items).price), Head(items).quantity)))

cartSubtotal(items) == ReduceSubtotal(items, Num(0))

\* a variant that counts the lines
cartItemCount_lines(items) == Num(Len(items))

\* cart.reduce((count, item) => count + item.quantity, 0)
RECURSIVE ReduceCount(_, _)
ReduceCount(items, count) ==
    IF items = <<>> THEN count
    ELSE ReduceCount(Tail(items), Plus(count, Head(items).quantity))

cartItemCount(items) == ReduceCount(items, Num(0))

\* orders.reduce((sum, order) => sum + order.totalAmount, 0)
RECURSIVE ReduceSales(_, _)
ReduceSales(os, sum) ==
    IF os = <<>> THEN sum
    ELSE ReduceSales(Tail(os), Plus(sum, Head(os).totalAmount))

totalSalesAmount(os) == ReduceSales(os, Num(0))

\* placeOrder: if (cartItems.length === 0) return null
placeOrder_neverRejects(cartItems) == FALSE

placeOrderRejects(cartItems) == Len(cartItems) = 0

\* a variant whose total leaves out the shipping cost
newOrder_noShipping(customerInfo, cartItems, t1, t2) ==
    [id |-> t1,
     customerInfo |-> customerInfo,
     items |-> cartItems,
     totalAmount |-> cartSubtotal(cartItems),
     paymentMethod |-> "Cash on Delivery",
     timestamp |-> t2,
     status |-> "Pending"]

\* a variant that reads the items after the cart was cleared
newOrder_clearedItems(customerInfo, cartItems, t1, t2) ==
    [id |-> t1,
     customerInfo |-> customerInfo,
     items |-> <<>>,
     totalAmount |-> Plus(cartSubtotal(cartItems), Num(SHIPPING_COST)),
     paymentMethod |-> "Cash on Delivery",
     timestamp |-> t2,
     status |-> "Pending"]

\* the order placeOrder builds; t1 and t2 are its two readings of Date.now()
newOrder(customerInfo, cartItems, t1, t2) ==
    [id |-> t1,
     customerInfo |-> customerInfo,
     items |-> cartItems,
     totalAmount |-> Plus(cartSubtotal(cartItems), Num(SHIPPING_COST)),
     paymentMethod |-> "Cash on Delivery",
     timestamp |-> t2,
     status |-> "Pending"]

\* a variant that puts the new order first
appendOrder_prepend(prevOrders, order) == <<order>> \o prevOrders

\* placeOrder: setOrders(prevOrders => [...prevOrders, newOrder])
appendOrder(prevOrders, order) == Append(prevOrders, order)

\* a variant that never moves an order back to Pending
updateOrderStatus_forwardOnly(prevOrders, orderId, status) ==
    [i \in 1..Len(prevOrders) |->
        IF prevOrders[i].id = orderId /\ status # "Pending"
        THEN [prevOrders[i] EXCEPT !.status = status]
        ELSE prevOrders[i]]

\* a variant that recomputes the total of the order it updates
updateOrderStatus_retotal(prevOrders, orderId, status) ==
    [i \in 1..Len(prevOrders) |->
        IF prevOrders[i].id = orderId
        THEN [prevOrders[i] EXCEPT !.status = status,
                                   !.totalAmount = cartSubtotal(prevOrders[i].items)]
        ELSE prevOrders[i]]

\* a variant that updates the orders whose id differs
updateOrderStatus_inverted(prevOrders, orderId, status) ==
    [i \in 1..Len(prevOrders) |->
        IF prevOrders[i].id # orderId
        THEN [prevOrders[i] EXCEPT !.status = status]
        ELSE prevOrders[i]]

\* a variant that filters where the code maps
updateOrderStatus_filter(prevOrders, orderId, status) ==
    LET keep(o) == o.id # orderId IN SelectSeq(prevOrders, keep)

\* updateOrderStatus: prevOrders.map(o => o.id === orderId ? {...o, status} : o)
updateOrderStatus(prevOrders, orderId, status) ==
    [i \in 1..Len(prevOrders) |->
        IF prevOrders[i].id = orderId
        THEN [prevOrders[i] EXCEPT !.status = status]
        ELSE prevOrders[i]]

\* a variant that compares the email alone
credentialsMatch_emailOnly(email, pass) == email = ADMIN_EMAIL

\* login: the credentials match the fixed constants
credentialsMatch(email, pass) == email = ADMIN_EMAIL /\ pass = ADMIN_PASSWORD

(***************************************************************************)
(* The state after the provider has mounted on an empty store: every cell  *)
(* holds its initial value and the mount effect has written the default    *)
(* products.                                                               *)
(***************************************************************************)
Init ==
    /\ isAdmin = FALSE
    /\ products = initialProducts
    /\ cart = <<>>
    /\ orders = <<>>
    /\ localStorage = [isAdmin |-> Missing, products |-> Stored(initialProducts),
                       cart |-> Missing, orders |-> Missing]
    /\ now = T0
    /\ last = [op |-> "mount", args |-> <<>>, ret |-> <<>>]
    /\ calls = 0
    /\ ui = [formError |-> "", error |-> "", isSubmitting |-> FALSE,
             route |-> "/", pending |-> <<>>, orderId |-> <<>>]
    /\ quota = "free"

(***************************************************************************)
(* Operations.  `last` records the call just made and what it returned,    *)
(* `calls` counts the calls of the session.                                *)
(***************************************************************************)
Record(op, args, ret) ==
    /\ calls < MaxCalls
    /\ calls' = calls + 1
    /\ last' = [op |-> op, args |-> args, ret |-> ret]
    /\ UNCHANGED quota

\* a call of a function of the context: the state of the pages stays
Call(op, args, ret) ==
    /\ Record(op, args, ret)
    /\ UNCHANGED ui

Login(email, pass) ==
    /\ IF credentialsMatch(email, pass)
       THEN /\ isAdmin' = TRUE
            /\ localStorage' = SetItem(localStorage, "isAdmin", TRUE)
            /\ Call("login", <<email, pass>>, <<TRUE>>)
       ELSE /\ UNCHANGED <<isAdmin, localStorage>>
            /\ Call("login", <<email, pass>>, <<FALSE>>)
    /\ UNCHANGED <<products, cart, orders, now>>

\* a variant of logout that also empties the cart
Logout_clearsCart ==
    /\ isAdmin' = FALSE
    /\ cart' = <<>>
    /\ localStorage' = SetItem(SetItem(localStorage, "isAdmin", FALSE), "cart", <<>>)
    /\ Call("logout", <<>>, <<>>)
    /\ UNCHANGED <<products, orders, now>>

Logout ==
    /\ isAdmin' = FALSE
    /\ localStorage' = SetItem(localStorage, "isAdmin", FALSE)
    /\ Call("logout", <<>>, <<>>)
    /\ UNCHANGED <<products, cart, orders, now>>

AddProduct(productData) ==
    /\ products' = addProduct(products, productData, now)
    /\ localStorage' = SetItem(localStorage, "products", products')
    /\ Call("addProduct", <<now>>, <<>>)
    /\ UNCHANGED <<isAdmin, cart, orders, now>>

EditProduct(updatedProduct) ==
    /\ products' = editProduct(products, updatedProduct)
    /\ localStorage' = SetItem(localStorage, "products", products')
    /\ Call("editProduct", <<updatedProduct.id, updatedProduct>>, <<>>)
    /\ UNCHANGED <<isAdmin, cart, orders, now>>

\* a variant of deleteProduct that also removes the product's cart line
DeleteProduct_purgesCart(productId) ==
    /\ products' = deleteProduct(products, productId)
    /\ cart' = removeFromCart(cart, productId)
    /\ localStorage' = SetItem(SetItem(localStorage, "products", products'),
                               "cart", JSONCart(cart'))
    /\ Call("deleteProduct", <<productId>>, <<>>)
    /\ UNCHANGED <<isAdmin, orders, now>>

DeleteProduct(productId) ==
    /\ products' = deleteProduct(products, productId)
    /\ localStorage' = SetItem(localStorage, "products", products')
    /\ Call("deleteProduct", <<productId>>, <<>>)
    /\ UNCHANGED <<isAdmin, cart, orders, now>>

\* `last.args` holds the product's id, the value of the parameter quantity
\* and the argument the caller passed for it
AddToCart(product, argument) ==
    /\ cart' = addToCart(cart, product, quantityParameter(argument))
    /\ localStorage' = SetItem(localStorage, "cart", JSONCart(cart'))
    /\ Call("addToCart", <<product.id, quantityParameter(argument), argument>>, <<>>)
    /\ UNCHANGED <<isAdmin, products, orders, now>>

RemoveFromCart(productId) ==
    /\ cart' = removeFromCart(cart, productId)
    /\ localStorage' = SetItem(localStorage, "cart", JSONCart(cart'))
    /\ Call("removeFromCart", <<productId>>, <<>>)
    /\ UNCHANGED <<isAdmin, products, orders, now>>

UpdateCartQuantity(productId, quantity) ==
    /\ cart' = updateCartQuantity(cart, productId, quantity)
    /\ localStorage' = SetItem(localStorage, "cart", JSONCart(cart'))
    /\ Call("updateCartQuantity", <<productId, quantity>>, <<>>)
    /\ UNCHANGED <<isAdmin, products, orders, now>>

ClearCart ==
    /\ cart' = <<>>
    /\ localStorage' = SetItem(localStorage, "cart", <<>>)
    /\ Call("clearCart", <<>>, <<>>)
    /\ UNCHANGED <<isAdmin, products, orders, now>>

\* CheckoutPage.handleSubmit passes the form's customerInfo and the cart
PlaceOrder(customerInfo, cartItems) ==
    IF placeOrderRejects(cartItems)
    THEN /\ Call("placeOrder", <<customerInfo>>, <<>>)
         /\ UNCHANGED <<isAdmin, products, cart, orders, localStorage, now>>
    ELSE \E t2 \in {now, now + 1} :
            LET order == newOrder(customerInfo, cartItems, now, t2) IN
            /\ now' = t2
            /\ orders' = appendOrder(orders, order)
            /\ cart' = <<>>
            /\ localStorage' =
                  SetItem(SetItem(localStorage, "orders", JSONOrders(orders')),
                          "cart", <<>>)
            /\ Call("placeOrder", <<customerInfo>>, <<order.id>>)
            /\ UNCHANGED <<isAdmin, products>>

UpdateOrderStatus(orderId, status) ==
    /\ orders' = updateOrderStatus(orders, orderId, status)
    /\ localStorage' = SetItem(localStorage, "orders", JSONOrders(orders'))
    /\ Call("updateOrderStatus", <<orderId, status>>, <<>>)
    /\ UNCHANGED <<isAdmin, products, cart, now>>

\* time passes between two calls
Tick ==
    /\ now' = now + 1
    /\ Call("tick", <<>>, <<>>)
    /\ UNCHANGED <<isAdmin, products, cart, orders, localStorage>>

Next ==
    \/ \E email \in Emails, pass \in Passwords : Login(email, pass)
    \/ Logout
    \/ \E productData \in FormData : AddProduct(productData)
    \/ \E productId \in IdsOf(products) \cup {NoSuchId}, productData \in FormData :
          EditProduct([id |-> productId, name |-> productData.name,
                       price |-> productData.price])
    \/ \E productId \in IdsOf(products) \cup {NoSuchId} : DeleteProduct(productId)
    \/ \E i \in 1..Len(products), argument \in AddArguments :
          AddToCart(products[i], argument)
    \/ \E productId \in IdsOf(cart) \cup {NoSuchId} : RemoveFromCart(productId)
    \/ \E productId \in IdsOf(cart) \cup {NoSuchId}, quantity \in UpdateQuantities :
          UpdateCartQuantity(productId, quantity)
    \/ ClearCart
    \/ \E customerInfo \in CustomerInfos : PlaceOrder(customerInfo, cart)
    \/ \E orderId \in IdsOf(orders) \cup {NoSuchId}, status \in Statuses :
          UpdateOrderStatus(orderId, status)
    \/ Tick

Spec == Init /\ [][Next]_vars

(***************************************************************************)
(* The forms.  A submission is one step: the handler runs up to its first  *)
(* return, the calls of the context it makes included.  `last.ret` names   *)
(* the function of the context the handler called, if any.                 *)
(***************************************************************************)
FORM_ERROR == "Name, valid Price (must be > 0), and Description are required."

FIELDS_ERROR == "All fields (Name, Phone, Address) are required."

PHONE_ERROR == "Please enter a valid phone number (10-15 digits)."

PLACE_ERROR == "Failed to place order. Your cart might be empty or an unknown error occurred."

\* AdminProductForm.handleSave of the form for a new product (editing
\* FALSE) or of the form opened on the product productId
HandleSave(form, editing, productId) ==
    IF productFormRejected(form)
    THEN /\ ui' = [ui EXCEPT !.formError = FORM_ERROR]
         /\ Record("handleSave", <<form, editing, productId>>, <<>>)
         /\ UNCHANGED <<isAdmin, products, cart, orders, localStorage, now>>
    ELSE /\ ui' = [ui EXCEPT !.formError = ""]
         /\ IF editing
            THEN /\ products' = editProduct(products,
                                   [id |-> productId, name |-> productDataOf(form).name,
                                    price |-> productDataOf(form).price])
                 /\ Record("handleSave", <<form, editing, productId>>, <<"editProduct">>)
            ELSE /\ products' = addProduct(products, productDataOf(form), now)
                 /\ Record("handleSave", <<form, editing, productId>>, <<"addProduct">>)
         /\ localStorage' = SetItem(localStorage, "products", products')
         /\ UNCHANGED <<isAdmin, cart, orders, now>>

\* CheckoutPage.handleSubmit; the page shows the form while the cart has lines
HandleSubmit(customerInfo) ==
    /\ cart # <<>>
    /\ IF checkoutFormRejected(customerInfo)
       THEN /\ ui' = [ui EXCEPT !.error = IF \/ Trim(customerInfo.name) = <<>>
                                             \/ Trim(customerInfo.phone) = <<>>
                                             \/ Trim(customerInfo.address) = <<>>
                                          THEN FIELDS_ERROR ELSE PHONE_ERROR,
                                 !.isSubmitting = FALSE]
            /\ Record("handleSubmit", <<customerInfo>>, <<>>)
            /\ UNCHANGED <<isAdmin, products, cart, orders, localStorage, now>>
       ELSE IF placeOrderRejects(cart)
       THEN /\ ui' = [ui EXCEPT !.error = PLACE_ERROR, !.isSubmitting = FALSE]
            /\ Record("handleSubmit", <<customerInfo>>, <<"placeOrder">>)
            /\ UNCHANGED <<isAdmin, products, cart, orders, localStorage, now>>
       ELSE \E t2 \in {now, now + 1} :
               LET order == newOrder(customerInfo, cart, now, t2) IN
               /\ ui' = [ui EXCEPT !.error = "", !.isSubmitting = FALSE]
               /\ now' = t2
               /\ orders' = appendOrder(orders, order)
               /\ cart' = <<>>
               /\ localStorage' =
                     SetItem(SetItem(localStorage, "orders", JSONOrders(orders')),
                             "cart", <<>>)
               /\ Record("handleSubmit", <<customerInfo>>, <<"placeOrder">>)
               /\ UNCHANGED <<isAdmin, products>>

\* what a visitor does on the pages: the product page and the cart page
\* change the cart, the admin page deletes a product or saves a form, the
\* checkout page submits
NextForms ==
    \/ \E i \in 1..Len(products), quantity \in AddQuantities :
          AddToCart(products[i], quantity)
    \/ \E productId \in IdsOf(cart), quantity \in UpdateQuantities :
          UpdateCartQuantity(productId, quantity)
    \/ \E productId \in IdsOf(products) : DeleteProduct(productId)
    \/ Tick
    \/ \E form \in ProductForms : HandleSave(form, FALSE, NoSuchId)
    \/ \E form \in ProductForms, productId \in IdsOf(products) :
          HandleSave(form, TRUE, productId)
    \/ \E customerInfo \in CheckoutForms : HandleSubmit(customerInfo)

SpecForms == Init /\ [][NextForms]_vars

(***************************************************************************)
(* The routes.  A step is a handler and the render that follows it, the    *)
(* effects of the rendered page included; a redirect made by the rendered  *)
(* element or by an effect is part of the step.  handleSubmit of the       *)
(* checkout page is cut at its await: SubmitOrder runs up to it, the       *)
(* render follows, and SubmitOrderResumed is the rest, which runs before   *)
(* the visitor can act again.                                              *)
(***************************************************************************)
Paths == {"/", "/cart", "/checkout", "/login", "/admin"}

\* a variant that renders its children whatever the flag
ProtectedRoute_open(flag, children) == children

\* ProtectedRoute: <Navigate to="/login"> unless isAdmin
ProtectedRoute(flag, children) == IF ~flag THEN "Navigate /login" ELSE children

\* the element of the route
Element(path, flag) ==
    CASE path = "/" -> "HomePage"
      [] path = "/cart" -> "CartPage"
      [] path = "/checkout" -> "CheckoutPage"
      [] path = "/order-success" -> "OrderSuccessPage"
      [] path = "/login" -> "LoginPage"
      [] path = "/admin" -> ProtectedRoute(flag, "AdminPage")

\* the earlier effect of CheckoutPage: cart.length === 0
checkoutRedirects_earlier(cartItems, submitting) == cartItems = <<>>

\* the effect of CheckoutPage: cart.length === 0 && !isSubmitting
checkoutRedirects(cartItems, submitting) == cartItems = <<>> /\ ~submitting

\* the route after the render of path and its effects; the route it gives
\* renders without a further redirect
Settle(path, flag, cartItems, submitting) ==
    IF Element(path, flag) = "Navigate /login" THEN "/login"
    ELSE IF Element(path, flag) = "LoginPage" /\ flag THEN "/admin"
    ELSE IF Element(path, flag) = "CheckoutPage" /\ checkoutRedirects(cartItems, submitting)
    THEN "/cart"
    ELSE path

\* the page on the screen
Page == Element(ui.route, isAdmin)

\* a link is followed or an address is entered; the page that was shown
\* is unmounted and its state is gone
Visit(path) ==
    /\ ui.pending = <<>>
    /\ ui' = [ui EXCEPT !.route = Settle(path, isAdmin, cart, FALSE),
                        !.formError = "", !.error = "", !.isSubmitting = FALSE]
    /\ Record("visit", <<path>>, <<>>)
    /\ UNCHANGED <<isAdmin, products, cart, orders, localStorage, now>>

\* Navbar.handleLogout: logout(); navigate('/')
HandleLogout ==
    /\ ui.pending = <<>>
    /\ isAdmin' = FALSE
    /\ localStorage' = SetItem(localStorage, "isAdmin", FALSE)
    /\ ui' = [ui EXCEPT !.route = Settle("/", FALSE, cart, FALSE),
                        !.formError = "", !.error = "", !.isSubmitting = FALSE]
    /\ Record("handleLogout", <<>>, <<>>)
    /\ UNCHANGED <<products, cart, orders, now>>

\* LoginPage.handleSubmit: if (login(email, password)) navigate(from), where
\* from is the admin route
LoginSubmit(email, pass) ==
    /\ Page = "LoginPage"
    /\ ui.pending = <<>>
    /\ IF credentialsMatch(email, pass)
       THEN /\ isAdmin' = TRUE
            /\ localStorage' = SetItem(localStorage, "isAdmin", TRUE)
            /\ ui' = [ui EXCEPT !.route = Settle("/admin", TRUE, cart, FALSE)]
            /\ Record("LoginPage.handleSubmit", <<email, pass>>, <<TRUE>>)
       ELSE /\ UNCHANGED <<isAdmin, localStorage, ui>>
            /\ Record("LoginPage.handleSubmit", <<email, pass>>, <<FALSE>>)
    /\ UNCHANGED <<products, cart, orders, now>>

\* CheckoutPage.handleSubmit up to its await, and the render that follows
SubmitOrder(customerInfo) ==
    /\ Page = "CheckoutPage"
    /\ ui.pending = <<>>
    /\ IF checkoutFormRejected(customerInfo)
       THEN HandleSubmit(customerInfo)
       ELSE /\ cart # <<>>
            /\ \E t2 \in {now, now + 1} :
                  LET order == newOrder(customerInfo, cart, now, t2) IN
                  /\ now' = t2
                  /\ orders' = appendOrder(orders, order)
                  /\ cart' = <<>>
                  /\ localStorage' =
                        SetItem(SetItem(localStorage, "orders", JSONOrders(orders')),
                                "cart", <<>>)
                  /\ ui' = [ui EXCEPT !.error = "", !.isSubmitting = TRUE,
                                      !.pending = <<order.id>>,
                                      !.route = Settle(ui.route, isAdmin, <<>>, TRUE)]
                  /\ Record("handleSubmit", <<customerInfo>>, <<"placeOrder">>)
                  /\ UNCHANGED <<isAdmin, products>>

\* the rest of CheckoutPage.handleSubmit: navigate to the success route of
\* the id that placeOrder returned, then setIsSubmitting(false)
SubmitOrderResumed ==
    /\ ui.pending # <<>>
    /\ ui' = [ui EXCEPT !.route = "/order-success", !.orderId = ui.pending,
                        !.pending = <<>>, !.isSubmitting = FALSE]
    /\ Record("handleSubmit.resumed", <<>>, ui.pending)
    /\ UNCHANGED <<isAdmin, products, cart, orders, localStorage, now>>

NextPages ==
    \/ \E path \in Paths : Visit(path)
    \/ HandleLogout
    \/ \E email \in Emails, pass \in Passwords : LoginSubmit(email, pass)
    \/ /\ Page = "HomePage"
       /\ \E i \in 1..Len(products), argument \in AddArguments :
             AddToCart(products[i], argument)
    \/ /\ Page = "CartPage"
       /\ \E productId \in IdsOf(cart) : RemoveFromCart(productId)
    \/ \E customerInfo \in CheckoutForms : SubmitOrder(customerInfo)
    \/ SubmitOrderResumed

SpecPages == Init /\ [][NextPages]_vars

(***************************************************************************)
(* The storage of the browser.  Its quota is reached or freed by other     *)
(* pages of the origin; past the quota every setItem throws.  Just below   *)
(* the quota a write that makes the store longer throws and a write that   *)
(* makes it shorter goes through.                                          *)
(***************************************************************************)
QuotaExceeded ==
    /\ quota = "free"
    /\ quota' = "exceeded"
    /\ UNCHANGED <<isAdmin, products, cart, orders, localStorage, now, last, calls, ui>>

QuotaFreed ==
    /\ quota = "exceeded"
    /\ quota' = "free"
    /\ UNCHANGED <<isAdmin, products, cart, orders, localStorage, now, last, calls, ui>>

\* placeOrder on a store that has no room for one more order: the setItem
\* of the longer orders throws inside setValue, the setItem of '[]' under
\* cart replaces a longer value and goes through
PlaceOrderAtQuota(customerInfo, cartItems) ==
    /\ ~placeOrderRejects(cartItems)
    /\ quota = "free"
    /\ \E t2 \in {now, now + 1} :
          LET order == newOrder(customerInfo, cartItems, now, t2) IN
          /\ now' = t2
          /\ orders' = appendOrder(orders, order)
          /\ cart' = <<>>
          /\ localStorage' = [localStorage EXCEPT !["cart"] = Stored(<<>>)]
          /\ Call("placeOrder", <<customerInfo>>, <<order.id>>)
          /\ UNCHANGED <<isAdmin, products>>

NextStorage ==
    \/ Next
    \/ \E customerInfo \in CustomerInfos : PlaceOrderAtQuota(customerInfo, cart)
    \/ QuotaExceeded
    \/ QuotaFreed

SpecStorage == Init /\ [][NextStorage]_vars

(***************************************************************************)
(* A second tab of the browser.  Its AppProvider starts on the shared      *)
(* store, adds a product to its own cart and writes that cart; the         *)
(* provider of this tab reads the store only when it starts and hears      *)
(* nothing of the write.                                                   *)
(***************************************************************************)
OtherTabAddToCart(product, quantity) ==
    /\ localStorage' =
          SetItem(localStorage, "cart",
                  JSONCart(addToCart(initialState(localStorage).cart, product, quantity)))
    /\ Record("otherTab.addToCart", <<product.id, quantity>>, <<>>)
    /\ UNCHANGED <<isAdmin, products, cart, orders, now, ui>>

NextTabs ==
    \/ Next
    \/ \E i \in 1..Len(initialState(localStorage).products), quantity \in AddQuantities :
          OtherTabAddToCart(initialState(localStorage).products[i], quantity)

SpecTabs == Init /\ [][NextTabs]_vars

(***************************************************************************)
(* A restart: the page is loaded again and a new AppProvider starts on the *)
(* store.  The step covers the first render and the mount effect, which    *)
(* reads the products key again and writes the default products when the   *)
(* key is missing or holds an empty list.  `last.args` holds what the      *)
(* effect read.                                                            *)
(***************************************************************************)
Restart ==
    /\ isAdmin' = initialState(localStorage).isAdmin
    /\ products' = initialState(localStorage).products
    /\ cart' = initialState(localStorage).cart
    /\ orders' = initialState(localStorage).orders
    /\ localStorage' =
          IF ~localStorage.products.present \/ Len(localStorage.products.val) = 0
          THEN SetItem(localStorage, "products", initialProducts)
          ELSE localStorage
    /\ ui' = [formError |-> "", error |-> "", isSubmitting |-> FALSE,
              route |-> ui.route, pending |-> <<>>, orderId |-> ui.orderId]
    /\ Record("mount", <<localStorage.products>>, <<>>)
    /\ UNCHANGED now

\* the visitor clears the site data of the browser: no key is left
StorageCleared ==
    /\ localStorage # [isAdmin |-> Missing, products |-> Missing,
                       cart |-> Missing, orders |-> Missing]
    /\ localStorage' = [isAdmin |-> Missing, products |-> Missing,
                        cart |-> Missing, orders |-> Missing]
    /\ UNCHANGED <<isAdmin, products, cart, orders, now, last, calls, ui, quota>>

\* the operations on the products and on the cart, restarts in between
NextRestart ==
    \/ \E productData \in FormData : AddProduct(productData)
    \/ \E productId \in IdsOf(products) : DeleteProduct(productId)
    \/ \E i \in 1..Len(products), argument \in AddArguments :
          AddToCart(products[i], argument)
    \/ \E productId \in IdsOf(cart), quantity \in UpdateQuantities :
          UpdateCartQuantity(productId, quantity)
    \/ Tick
    \/ Restart
    \/ StorageCleared

SpecRestart == Init /\ [][NextRestart]_vars

(***************************************************************************)
(* The orders section of the admin page.  Its render evaluates             *)
(* orders.sort((a, b) => b.timestamp - a.timestamp) on the array held in   *)
(* the state of the provider; Array.prototype.sort sorts in place and is   *)
(* stable.  The admin is logged in from an earlier session.                *)
(***************************************************************************)
\* o put into a sequence sorted by falling timestamp, after the orders that
\* are not older
RECURSIVE InsertOrder(_, _)
InsertOrder(sorted, o) ==
    IF sorted = <<>> THEN <<o>>
    ELSE IF Head(sorted).timestamp >= o.timestamp
    THEN <<Head(sorted)>> \o InsertOrder(Tail(sorted), o)
    ELSE <<o>> \o sorted

\* os.sort((a, b) => b.timestamp - a.timestamp)
RECURSIVE SortOrders(_)
SortOrders(os) ==
    IF os = <<>> THEN <<>>
    ELSE InsertOrder(SortOrders(SubSeq(os, 1, Len(os) - 1)), os[Len(os)])

InitAdmin ==
    /\ isAdmin = TRUE
    /\ products = initialProducts
    /\ cart = <<>>
    /\ orders = <<>>
    /\ localStorage = [isAdmin |-> Stored(TRUE), products |-> Stored(initialProducts),
                       cart |-> Missing, orders |-> Missing]
    /\ now = T0
    /\ last = [op |-> "mount", args |-> <<>>, ret |-> <<>>]
    /\ calls = 0
    /\ ui = [formError |-> "", error |-> "", isSubmitting |-> FALSE,
             route |-> "/admin", pending |-> <<>>, orderId |-> <<>>]
    /\ quota = "free"

\* AdminPage renders its orders section; a render is not a call
RenderOrders ==
    /\ Page = "AdminPage"
    /\ orders' = SortOrders(orders)
    /\ last' = [op |-> "AdminPage.render", args |-> <<>>, ret |-> <<>>]
    /\ UNCHANGED <<isAdmin, products, cart, localStorage, now, calls, ui, quota>>

NextAdmin ==
    \/ Next
    \/ RenderOrders

SpecAdmin == InitAdmin /\ [][NextAdmin]_vars

(***************************************************************************)
(* Properties.                                                             *)
(***************************************************************************)
\* the step just taken is a call of op
Called(op) == last'.op = op /\ calls' = calls + 1

\* C1: no two cart lines have the same product id; addToCart(p, q) on a cart
\* that holds a line for p.id keeps the number of lines and sets that line's
\* quantity to its old quantity + q (not a number when the old one was not).
C1_NoDuplicateLines ==
    /\ [](\A i, j \in 1..Len(cart) : cart[i].id = cart[j].id => i = j)
    /\ [][(Called("addToCart") /\ HasId(cart, last'.args[1])) =>
            /\ Len(cart') = Len(cart)
            /\ \A i \in 1..Len(cart) :
                  cart[i].id = last'.args[1] =>
                     IF IsNum(cart[i].quantity)
                     THEN cart'[i].quantity =
                             Num(cart[i].quantity.v + last'.args[2].v)
                     ELSE ~IsNum(cart'[i].quantity)]_vars

\* a second addToCart of a product has summed the quantities 1 and 2 in a
\* cart of two lines
C1_Witness ==
    /\ last.op = "addToCart"
    /\ Len(cart) = 2
    /\ \E i \in 1..Len(cart) :
          cart[i].id = last.args[1] /\ cart[i].quantity = Num(3)

\* C2: every cart line has an integer quantity >= 1.
C2_QuantityAtLeastOne ==
    \A i \in 1..Len(cart) : IsNum(cart[i].quantity) /\ cart[i].quantity.v >= 1

\* C3: placeOrder on an empty cart returns null and leaves products, cart,
\* orders and the session flag unchanged, in memory and in localStorage.
C3_EmptyCartRejected ==
    [][(Called("placeOrder") /\ cart = <<>>) =>
          /\ last'.ret = <<>>
          /\ UNCHANGED <<isAdmin, products, cart, orders, localStorage>>]_vars

\* placeOrder was called on an empty cart while an order was on record
C3_Witness ==
    /\ last.op = "placeOrder"
    /\ last.ret = <<>>
    /\ Len(orders) = 1
    /\ localStorage.orders.present

\* the sum over the lines of price * quantity, from the last line to the first
RECURSIVE LinesTotal(_)
LinesTotal(items) ==
    IF items = <<>> THEN 0
    ELSE items[Len(items)].price * items[Len(items)].quantity.v
           + LinesTotal(SubSeq(items, 1, Len(items) - 1))

\* C4: placeOrder on a non-empty cart leaves the cart empty and the new
\* order's totalAmount is the sum of price * quantity over the ordered lines
\* plus 250 (not a number when a quantity is not a number).
C4_TotalIsSubtotalPlusShipping ==
    [][(Called("placeOrder") /\ cart # <<>>) =>
          /\ cart' = <<>>
          /\ Len(orders') > 0
          /\ LET total == orders'[Len(orders')].totalAmount IN
             IF \A i \in 1..Len(cart) : IsNum(cart[i].quantity)
             THEN total = Num(LinesTotal(cart) + 250)
             ELSE ~IsNum(total)]_vars

\* an order of two lines, 2 * 2500 + 1 * 15000 + 250, was placed
C4_Witness ==
    /\ last.op = "placeOrder"
    /\ cart = <<>>
    /\ \E i \in 1..Len(orders) :
          Len(orders[i].items) = 2 /\ orders[i].totalAmount = Num(20250)

\* C5: the items of the new order are exactly the cart lines that were in
\* the cart immediately before the call, in order, and the call removes them.
C5_OrderSnapshotsCart ==
    [][(Called("placeOrder") /\ cart # <<>>) =>
          /\ Len(orders') > 0
          /\ orders'[Len(orders')].items = cart
          /\ cart' = <<>>]_vars

\* an order was placed whose items are two lines, of different quantities
C5_Witness ==
    /\ last.op = "placeOrder"
    /\ last.ret # <<>>
    /\ \E i \in 1..Len(orders) :
          /\ orders[i].id = last.ret[1]
          /\ Len(orders[i].items) = 2
          /\ orders[i].items[1].quantity # orders[i].items[2].quantity

\* C6: a successful placeOrder appends exactly one order at the end, with the
\* given customerInfo, 'Cash on Delivery' and 'Pending', leaves the orders
\* that existed unchanged and in place, and returns the new order's id.
C6_AppendsOneOrder ==
    [][(Called("placeOrder") /\ cart # <<>>) =>
          /\ Len(orders') = Len(orders) + 1
          /\ \A i \in 1..Len(orders) : orders'[i] = orders[i]
          /\ orders'[Len(orders')].customerInfo = last'.args[1]
          /\ orders'[Len(orders')].paymentMethod = "Cash on Delivery"
          /\ orders'[Len(orders')].status = "Pending"
          /\ last'.ret = <<orders'[Len(orders')].id>>]_vars

\* a second order was placed, for another customer than the first
C6_Witness ==
    /\ last.op = "placeOrder"
    /\ Len(orders) = 2
    /\ last.ret = <<orders[2].id>>
    /\ orders[1].customerInfo # orders[2].customerInfo

\* C7: updateCartQuantity(id, q) with q <= 0 leaves the cart that
\* removeFromCart(id) leaves, in memory and in localStorage.
C7_ZeroQuantityRemoves ==
    [][(Called("updateCartQuantity") /\ IsNum(last'.args[2]) /\ last'.args[2].v <= 0) =>
          /\ cart' = removeFromCart(cart, last'.args[1])
          /\ localStorage' =
                SetItem(localStorage, "cart", JSONCart(removeFromCart(cart, last'.args[1])))
          /\ UNCHANGED <<isAdmin, products, orders>>]_vars

\* updateCartQuantity(id, 0) has removed one of two lines
C7_Witness ==
    /\ last.op = "updateCartQuantity"
    /\ last.args[2] = Num(0)
    /\ last.args[1] # NoSuchId
    /\ Len(cart) = 1
    /\ ~HasId(cart, last.args[1])

\* C8: login returns true and sets the session flag iff email and pass are
\* exactly 'admin@example.com' and 'password123'; otherwise it returns false
\* and leaves the flag as it was.
C8_LoginExactPair ==
    [][Called("login") =>
          IF last'.args[1] = "admin@example.com" /\ last'.args[2] = "password123"
          THEN /\ last'.ret = <<TRUE>>
               /\ isAdmin' = TRUE
               /\ localStorage'.isAdmin = Stored(TRUE)
          ELSE /\ last'.ret = <<FALSE>>
               /\ isAdmin' = isAdmin
               /\ localStorage'.isAdmin = localStorage.isAdmin]_vars

\* a login with the right email and a wrong password failed while the
\* session flag was set
C8_Witness ==
    /\ last.op = "login"
    /\ last.args[1] = ADMIN_EMAIL
    /\ last.ret = <<FALSE>>
    /\ isAdmin

\* the fields of an order other than its status
Immutable(o) ==
    [id |-> o.id, items |-> o.items, customerInfo |-> o.customerInfo,
     timestamp |-> o.timestamp, totalAmount |-> o.totalAmount]

\* C9: once an order is created its totalAmount, id, items, customerInfo and
\* timestamp never change, whatever operation follows.
C9_OrderImmutable ==
    [][\A i \in 1..Len(orders) :
          /\ i <= Len(orders')
          /\ Immutable(orders'[i]) = Immutable(orders[i])]_vars

\* an order's status was changed and its product deleted
C9_Witness ==
    /\ Len(orders) = 1
    /\ orders[1].status # "Pending"
    /\ ~HasId(products, orders[1].items[1].id)

\* C10: the number of orders never decreases and an order id in the
\* collection stays in it.
C10_OrdersNeverDeleted ==
    [][/\ Len(orders') >= Len(orders)
       /\ IdsOf(orders) \subseteq IdsOf(orders')]_vars

\* the status of an order was set to Delivered and the order is still there
C10_Witness ==
    /\ last.op = "updateOrderStatus"
    /\ Len(orders) = 1
    /\ last.args[1] = orders[1].id
    /\ orders[1].status = "Delivered"

\* C11: updateOrderStatus(id, status) sets the status of the order whose id
\* matches and changes nothing else; with no such order the orders are left
\* as they were; products, cart and session flag are unchanged.
C11_StatusUpdateFrame ==
    [][Called("updateOrderStatus") =>
          /\ Len(orders') = Len(orders)
          /\ \A i \in 1..Len(orders) :
                IF orders[i].id = last'.args[1]
                THEN /\ orders'[i].status = last'.args[2]
                     /\ Immutable(orders'[i]) = Immutable(orders[i])
                     /\ orders'[i].paymentMethod = orders[i].paymentMethod
                ELSE orders'[i] = orders[i]
          /\ UNCHANGED <<products, cart, isAdmin>>
          /\ localStorage'.products = localStorage.products
          /\ localStorage'.cart = localStorage.cart
          /\ localStorage'.isAdmin = localStorage.isAdmin]_vars

\* the status of the one order was set to Shipped
C11_Witness ==
    /\ last.op = "updateOrderStatus"
    /\ Len(orders) = 1
    /\ last.args = <<orders[1].id, "Shipped">>
    /\ orders[1].status = "Shipped"

\* C12: all products in the collection have pairwise distinct ids.
C12_ProductIdsUnique ==
    \A i, j \in 1..Len(products) : products[i].id = products[j].id => i = j

\* C13: all orders have pairwise distinct ids.
C13_OrderIdsUnique ==
    \A i, j \in 1..Len(orders) : orders[i].id = orders[j].id => i = j

\* the indexes of the products whose id is not id
Kept(ps, id) == {k \in 1..Len(ps) : ps[k].id # id}

\* C14: editProduct(p) replaces in place the product whose id is p.id and
\* deleteProduct(id) removes the product whose id is id; the other products
\* keep value and relative position; with no such id the collection is
\* unchanged.
C14_EditAndDeleteById ==
    /\ [][Called("editProduct") =>
            /\ Len(products') = Len(products)
            /\ \A i \in 1..Len(products) :
                  products'[i] = IF products[i].id = last'.args[1]
                                 THEN last'.args[2] ELSE products[i]]_vars
    /\ [][Called("deleteProduct") =>
            /\ Len(products') = Cardinality(Kept(products, last'.args[1]))
            /\ \A j \in 1..Len(products') :
                  \E k \in Kept(products, last'.args[1]) :
                     /\ Cardinality({m \in Kept(products, last'.args[1]) : m <= k}) = j
                     /\ products'[j] = products[k]]_vars

\* the first product was edited in place, the second is as it was
C14_Witness ==
    /\ last.op = "editProduct"
    /\ Len(products) = 2
    /\ products[1] = last.args[2]
    /\ products[1] # initialProducts[1]
    /\ products[2] = initialProducts[2]

\* the sum over the lines of the quantities, from the last line to the first
RECURSIVE QuantityTotal(_)
QuantityTotal(items) ==
    IF items = <<>> THEN 0
    ELSE items[Len(items)].quantity.v
           + QuantityTotal(SubSeq(items, 1, Len(items) - 1))

\* the sum over the orders of totalAmount, from the last order to the first
RECURSIVE SalesTotal(_)
SalesTotal(os) ==
    IF os = <<>> THEN 0
    ELSE os[Len(os)].totalAmount.v + SalesTotal(SubSeq(os, 1, Len(os) - 1))

\* C15: cart subtotal is the sum of price * quantity over the cart lines, item
\* count the sum of the quantities, total sales the sum of totalAmount over
\* the orders (not a number when a summand is not a number).
C15_DerivedValues ==
    /\ IF \A i \in 1..Len(cart) : IsNum(cart[i].quantity)
       THEN /\ cartSubtotal(cart) = Num(LinesTotal(cart))
            /\ cartItemCount(cart) = Num(QuantityTotal(cart))
       ELSE /\ ~IsNum(cartSubtotal(cart))
            /\ ~IsNum(cartItemCount(cart))
    /\ IF \A i \in 1..Len(orders) : IsNum(orders[i].totalAmount)
       THEN totalSalesAmount(orders) = Num(SalesTotal(orders))
       ELSE ~IsNum(totalSalesAmount(orders))

\* a cart of two lines, 2 of the first product and 1 of the second, beside
\* an order on record
C15_Witness ==
    /\ Len(cart) = 2
    /\ cartSubtotal(cart) = Num(20000)
    /\ cartItemCount(cart) = Num(3)
    /\ Len(orders) = 1
    /\ totalSalesAmount(orders) = orders[1].totalAmount


\* a text that is empty or made of spaces only
Blank(t) == \A i \in 1..Len(t) : t[i] = " "

\* a text that writes a positive whole number: digits only, one of them not 0
WritesPositive(t) ==
    /\ t # <<>>
    /\ \A i \in 1..Len(t) : t[i] \in {"0", "1", "2", "3", "4", "5", "6", "7", "8", "9"}
    /\ \E i \in 1..Len(t) : t[i] # "0"

\* C19: every product has a price > 0; a save of the admin product form with
\* a blank name, a blank description or a price that is not a number > 0
\* sets the form's error, calls neither addProduct nor editProduct and
\* leaves the products, in memory and stored, as they were.
C19_ProductFormValidated ==
    /\ [](\A i \in 1..Len(products) : products[i].price > 0)
    /\ [][(Called("handleSave") /\ (\/ Blank(last'.args[1].name)
                                    \/ Blank(last'.args[1].description)
                                    \/ ~WritesPositive(last'.args[1].price)))
            => /\ ui'.formError # ""
               /\ last'.ret = <<>>
               /\ products' = products
               /\ localStorage'.products = localStorage.products]_vars

\* the form with price 0 was saved on the form for a new product and refused
C19_Witness ==
    /\ last.op = "handleSave"
    /\ last.args[1].price = <<"0">>
    /\ ~last.args[2]
    /\ ui.formError = FORM_ERROR
    /\ products = initialProducts

\* C20: a submission of the checkout form with a blank name, phone or
\* address, or with a phone that is not 10 to 15 digits once its whitespace
\* is removed, sets the page's error and does not call placeOrder: orders
\* and cart stay, in memory and stored, and the submitting flag is false.
C20_CheckoutFormValidated ==
    [][(Called("handleSubmit")
          /\ LET info == last'.args[1]
                 digits == SelectSeq(info.phone, LAMBDA c : c # " ")
             IN  \/ Blank(info.name)
                 \/ Blank(info.phone)
                 \/ Blank(info.address)
                 \/ Len(digits) \notin 10..15
                 \/ \E i \in 1..Len(digits) :
                       digits[i] \notin {"0", "1", "2", "3", "4", "5", "6", "7", "8", "9"})
         => /\ ui'.error # ""
            /\ ~ui'.isSubmitting
            /\ last'.ret = <<>>
            /\ UNCHANGED <<orders, cart>>
            /\ localStorage'.orders = localStorage.orders
            /\ localStorage'.cart = localStorage.cart]_vars

\* the form with a phone of nine digits was submitted on a cart of one line
C20_Witness ==
    /\ last.op = "handleSubmit"
    /\ Len(last.args[1].phone) = 9
    /\ ui.error = PHONE_ERROR
    /\ ~ui.isSubmitting
    /\ Len(cart) = 1
    /\ orders = <<>>

\* C17: a provider that starts on the persisted store has the isAdmin, cart
\* and orders of the provider that wrote the store, and its products when
\* that list is not empty.
C17_StoreMirrorsMemory ==
    LET fresh == initialState(localStorage) IN
    /\ fresh.isAdmin = isAdmin
    /\ fresh.cart = cart
    /\ fresh.orders = orders
    /\ products # <<>> => fresh.products = products

\* the same, for the states whose quantities and totals are all numbers
C17_MirrorsWhenNumbers ==
    (/\ \A i \in 1..Len(cart) : IsNum(cart[i].quantity)
     /\ \A i \in 1..Len(orders) : IsNum(orders[i].totalAmount))
    => C17_StoreMirrorsMemory

\* the functions of the context that write a collection or the session flag
Mutators ==
    {"login", "logout", "addProduct", "editProduct", "deleteProduct", "addToCart",
     "removeFromCart", "updateCartQuantity", "clearCart", "placeOrder",
     "updateOrderStatus"}

\* C18: a mutation whose storage write fails returns as usual and keeps the
\* value that was in memory before it.
C18_FailingWriteKeepsMemory ==
    [][(quota = "exceeded" /\ calls' = calls + 1 /\ last'.op \in Mutators)
         => UNCHANGED <<isAdmin, products, cart, orders>>]_vars

\* what the code does instead: the memory takes the new value and the store
\* keeps the old one
C18_FailingWriteKeepsStore ==
    [][(quota = "exceeded" /\ calls' = calls + 1 /\ last'.op \in Mutators)
         => localStorage' = localStorage]_vars

\* the ids of the lines of the stored cart
StoredCartIds(store) == IdsOf(getItem(store, "cart", <<>>))

\* C16: no addition to the cart is lost: after addToCart the stored cart
\* still has a line for every product it had a line for before, whichever
\* provider wrote that line.
C16_NoLostUpdate ==
    [][Called("addToCart")
         => StoredCartIds(localStorage) \subseteq StoredCartIds(localStorage')]_vars

\* C21: updateCartQuantity(id, q) with q > 0 keeps the number and the
\* sequence of the lines, gives the line with that id the quantity q and
\* leaves every other line as it was; with no line of that id the cart is
\* unchanged.
C21_QuantityOverwritten ==
    [][(Called("updateCartQuantity") /\ IsNum(last'.args[2]) /\ last'.args[2].v > 0) =>
          /\ Len(cart') = Len(cart)
          /\ \A i \in 1..Len(cart) :
                IF cart[i].id = last'.args[1]
                THEN /\ cart'[i].quantity = last'.args[2]
                     /\ cart'[i].id = cart[i].id
                     /\ cart'[i].name = cart[i].name
                     /\ cart'[i].price = cart[i].price
                ELSE cart'[i] = cart[i]
          /\ (~HasId(cart, last'.args[1]) => cart' = cart)]_vars

\* updateCartQuantity(id, 1) has overwritten the quantity 2 of the second of
\* two lines
C21_Witness ==
    /\ last.op = "updateCartQuantity"
    /\ last.args[2] = Num(1)
    /\ Len(cart) = 2
    /\ cart[2].id = last.args[1]
    /\ cart[2].quantity = Num(1)
    /\ cart[1].quantity = Num(2)

\* C22: addToCart(product, q) on a cart with no line for product.id keeps the
\* lines there are and puts after them one line with the id, the name and
\* the price of the product and the quantity q, which is 1 when the caller
\* passed no quantity.
C22_NewLineAppended ==
    [][(Called("addToCart") /\ ~HasId(cart, last'.args[1])) =>
          /\ Len(cart') = Len(cart) + 1
          /\ \A i \in 1..Len(cart) : cart'[i] = cart[i]
          /\ cart'[Len(cart')].id = last'.args[1]
          /\ \E i \in 1..Len(products) :
                /\ products[i].id = last'.args[1]
                /\ cart'[Len(cart')].name = products[i].name
                /\ cart'[Len(cart')].price = products[i].price
          /\ cart'[Len(cart')].quantity =
                IF last'.args[3].k = "undefined" THEN Num(1) ELSE last'.args[3]]_vars

\* addToCart(product) without a quantity has put a second line, of quantity
\* 1, after a line of quantity 2
C22_Witness ==
    /\ last.op = "addToCart"
    /\ last.args[3] = Undefined
    /\ Len(cart) = 2
    /\ cart[2].id = last.args[1]
    /\ cart[2].quantity = Num(1)
    /\ cart[1].quantity = Num(2)

\* C23: the status of every order is Pending, Shipped or Delivered; the order
\* that placeOrder adds is Pending; whatever the status of an order,
\* updateOrderStatus with its id gives it the status asked for, each of the
\* three being possible.
C23_StatusDomainAndTransitions ==
    /\ [](\A i \in 1..Len(orders) :
            /\ orders[i].status \in {"Pending", "Shipped", "Delivered"}
            /\ \A status \in {"Pending", "Shipped", "Delivered"} :
                  updateOrderStatus(orders, orders[i].id, status)[i].status = status)
    /\ [][(Called("placeOrder") /\ last'.ret # <<>>) =>
            orders'[Len(orders')].status = "Pending"]_vars
    /\ [][Called("updateOrderStatus") =>
            \A i \in 1..Len(orders) :
               orders[i].id = last'.args[1] => orders'[i].status = last'.args[2]]_vars

\* an order was moved to Delivered, and from there an update to Pending
\* gives Pending
C23_Witness ==
    /\ last.op = "updateOrderStatus"
    /\ Len(orders) = 1
    /\ last.args[1] = orders[1].id
    /\ orders[1].status = "Delivered"
    /\ updateOrderStatus(orders, orders[1].id, "Pending")[1].status = "Pending"

\* C24: a provider that starts on a store whose products key is missing or
\* holds an empty list has the default products and has written them under
\* the key; on any other store it has the stored products and leaves the key.
\* After every start the product collection is not empty.
C24_DefaultsRestored ==
    /\ [][Called("mount") =>
            IF ~localStorage.products.present \/ localStorage.products.val = <<>>
            THEN /\ products' = initialProducts
                 /\ localStorage'.products = [present |-> TRUE, val |-> initialProducts]
            ELSE /\ products' = localStorage.products.val
                 /\ localStorage'.products = localStorage.products]_vars
    /\ [](last.op = "mount" => products # <<>>)

\* the provider started on a stored empty list, after every product was
\* deleted, and has the default products again
C24_Witness ==
    /\ last.op = "mount"
    /\ calls > 0
    /\ last.args[1] = [present |-> TRUE, val |-> <<>>]
    /\ products = initialProducts
    /\ localStorage.products = [present |-> TRUE, val |-> initialProducts]

\* C25: the session flag is false at the start, becomes true by a
\* successful login only and false by logout only, so it is true exactly
\* when a login has succeeded and no logout has followed; logout leaves
\* products, cart and orders as they were, and no other operation changes
\* the flag.
C25_SessionFlag ==
    /\ [](calls = 0 => ~isAdmin)
    /\ [][/\ (Called("login") /\ last'.ret = <<TRUE>>) => isAdmin'
          /\ (Called("login") /\ last'.ret = <<FALSE>>) => isAdmin' = isAdmin
          /\ Called("logout") => (~isAdmin' /\ UNCHANGED <<products, cart, orders>>)
          /\ last'.op \notin {"login", "logout"} => isAdmin' = isAdmin]_vars

\* after a login, an addition to the cart and a logout the flag is false and
\* the cart still has its line
C25_Witness ==
    /\ last.op = "logout"
    /\ ~isAdmin
    /\ localStorage.isAdmin = [present |-> TRUE, val |-> FALSE]
    /\ Len(cart) = 1
    /\ calls = 3

\* C26: the admin page is on the screen only while the session flag is
\* true; a visit of the admin route with the flag false ends on the login
\* route; the logout of the navigation bar clears the flag and ends on the
\* home route; and the admin page comes on the screen only when the flag
\* was true already or by a login that succeeds.
C26_AdminPageGuarded ==
    /\ [](Page = "AdminPage" => isAdmin)
    /\ [][(Called("visit") /\ last'.args[1] = "/admin" /\ ~isAdmin)
            => ui'.route = "/login"]_vars
    /\ [][Called("handleLogout")
            => (~isAdmin' /\ ui'.route = "/"
                /\ Element(ui'.route, isAdmin') # "AdminPage")]_vars
    /\ [][(Page # "AdminPage" /\ Element(ui'.route, isAdmin') = "AdminPage")
            => \/ isAdmin
               \/ Called("LoginPage.handleSubmit") /\ last'.ret = <<TRUE>>]_vars

\* after a login and a logout the admin route was visited again and the
\* login page is shown
C26_Witness ==
    /\ last.op = "visit"
    /\ last.args[1] = "/admin"
    /\ localStorage.isAdmin = [present |-> TRUE, val |-> FALSE]
    /\ ~isAdmin
    /\ ui.route = "/login"
    /\ Page = "LoginPage"

\* C27: a valid submission of the checkout form leaves the checkout route
\* shown while it is in progress although placeOrder has emptied the cart,
\* and ends on the success route of the id that placeOrder returned, the id
\* of the order added last; an empty cart sends a visitor of the checkout
\* route to the cart route when no submission is in progress.
C27_NoRedirectWhileSubmitting ==
    /\ [][(Called("handleSubmit") /\ last'.ret = <<"placeOrder">>)
            => /\ cart' = <<>>
               /\ ui'.isSubmitting
               /\ ui'.route = "/checkout"]_vars
    /\ [](ui.pending # <<>> => ui.route = "/checkout")
    /\ [][Called("handleSubmit.resumed")
            => /\ ui'.route = "/order-success"
               /\ ui'.orderId = <<orders[Len(orders)].id>>
               /\ ui'.orderId = last'.ret
               /\ ~ui'.isSubmitting]_vars
    /\ [][(Called("visit") /\ last'.args[1] = "/checkout" /\ cart = <<>>)
            => ui'.route = "/cart"]_vars

\* a checkout has ended on the success route of its order
C27_Witness ==
    /\ last.op = "handleSubmit.resumed"
    /\ Len(orders) = 1
    /\ ui.route = "/order-success"
    /\ ui.orderId = <<orders[1].id>>
    /\ cart = <<>>
    /\ ~ui.isSubmitting

\* C28: addProduct, editProduct and deleteProduct leave the cart and the
\* orders as they were, in memory and stored: a cart line keeps its name and
\* price when its product is edited and stays when its product is deleted.
C28_ProductOpsKeepCartAndOrders ==
    [][(Called("addProduct") \/ Called("editProduct") \/ Called("deleteProduct"))
         => /\ UNCHANGED <<cart, orders>>
            /\ localStorage'.cart = localStorage.cart
            /\ localStorage'.orders = localStorage.orders]_vars

\* a product was deleted and the cart still has its line, with the name the
\* product had before it was edited
C28_Witness ==
    /\ last.op = "deleteProduct"
    /\ Len(cart) = 1
    /\ cart[1].id = last.args[1]
    /\ ~HasId(products, cart[1].id)
    /\ cart[1].name = initialProducts[1].name
    /\ calls = 3

\* C29: a render of the orders section of the admin page leaves the orders
\* in memory as they were, element by element.
C29_RenderKeepsOrders ==
    [][(last'.op = "AdminPage.render" /\ calls' = calls) => orders' = orders]_vars

\* C30: placeOrder either stores the orders with the new order last and the
\* empty list under the cart key, or changes neither key, also when a write
\* to the storage fails during the call.
C30_PlaceOrderAllOrNothing ==
    [][Called("placeOrder") =>
          \/ /\ localStorage'.orders = localStorage.orders
             /\ localStorage'.cart = localStorage.cart
          \/ /\ last'.ret # <<>>
             /\ localStorage'.orders.present
             /\ Len(localStorage'.orders.val) > 0
             /\ localStorage'.orders.val[Len(localStorage'.orders.val)].id = last'.ret[1]
             /\ localStorage'.cart = [present |-> TRUE, val |-> <<>>]]_vars

=============================================================================
